---- MODULE Spec2Model ----
(***************************************************************************)
(* Model of bot.py: the button-gated course bot.  One dispatcher thread    *)
(* handles one update at a time (python-telegram-bot without run_async);   *)
(* a handler is followed statement by statement through send_from_index    *)
(* and send_step, one transport call per step, the answer of the transport *)
(* chosen nondeterministically.  Chats are private: chat_id = user id.     *)
(***************************************************************************)
EXTENDS Integers, Sequences, FiniteSets, TLC

\* ------------------------------------------------------------------ bounds
MaxSteps == 2        \* longest step list loaded from content.txt
MaxTime == 2         \* timestamps CURRENT_TIMESTAMP returns are 1..MaxTime
MaxTarget == 2       \* callback payloads "step:k" range over -(MaxTarget+1)..MaxTarget
MaxText == 6         \* longest text given to _split_text
MaxMaxLen == 3       \* largest max_len given to _split_text

\* --------------------------------------------------------------- constants
NULL == -100         \* SQL NULL / missing dict key (outside every index range used)

Users == {"u1"}

\* FILE_ID_MAP keys: the video numbers with a cached Telegram file_id
FILE_ID_MAP == {1, 2, 3}

\* video numbers whose file videos/video N.mp4 exists on disk (environment)
ExistingFiles == {4}

\* video numbers a step may refer to: cached, on disk, missing
VideoNums == {1, 4, 5}

NoButton == ""       \* Step.button is None (or empty): falsy in `if step.button`

\* answers of one transport call: delivered, telegram.error.Unauthorized,
\* any other exception (BadRequest, NetworkError, TimedOut, ...)
Outcomes == {"Ok", "Unauthorized", "Failed"}

\* ------------------------------------------------------------- step lists
\* Step(text, button, videos): text is held as the number of chunks that
\* _split_text(_bold_first_line(step.text)) returns (0: step.text is empty)
Step(text, button, videos) == [text |-> text, button |-> button, videos |-> videos]

StepPool ==
    { Step(2, "Next", <<>>),        \* two text parts, a button
      Step(1, NoButton, <<1>>),     \* text and a cached video, no button
      Step(0, "Next", <<>>),        \* the empty step, with a button
      Step(1, "Next", <<4, 5>>),    \* a file video, then a missing one
      Step(0, "Next", <<5, 4>>) }   \* a missing video, then a file video

\* load_steps: a non-empty list (main raises RuntimeError on an empty one)
StepLists == UNION { [1..n -> StepPool] : n \in 1..MaxSteps }

\* ------------------------------------------------------ callback payloads
Digits == <<"0", "1", "2", "3", "4", "5", "6", "7", "8", "9">>

RECURSIVE NatStr(_)
NatStr(n) ==
    IF n < 10 THEN <<Digits[n + 1]>>
    ELSE NatStr(n \div 10) \o <<Digits[(n % 10) + 1]>>

\* str(n) of a Python int
IntStr(n) == IF n < 0 THEN <<"-">> \o NatStr(-n) ELSE NatStr(n)

StepPrefix == <<"s", "t", "e", "p", ":">>

\* callback_data=f"step:{step_index}"
CallbackData(step_index) == StepPrefix \o IntStr(step_index)

\* data.startswith(prefix)
StartsWith(data, prefix) ==
    /\ Len(data) >= Len(prefix)
    /\ SubSeq(data, 1, Len(prefix)) = prefix

\* data.split(":", 1)[1]: what follows the first colon
AfterFirstColon(data) ==
    LET k == CHOOSE j \in 1..Len(data) :
                 /\ data[j] = ":"
                 /\ \A m \in 1..(j - 1) : data[m] # ":"
    IN  SubSeq(data, k + 1, Len(data))

IsDigit(c) == \E d \in 1..10 : Digits[d] = c

DigitVal(c) == (CHOOSE d \in 1..10 : Digits[d] = c) - 1

RECURSIVE DigitsVal(_, _)
DigitsVal(s, acc) ==
    IF s = <<>> THEN acc ELSE DigitsVal(Tail(s), 10 * acc + DigitVal(Head(s)))

\* int(s): an optional sign and at least one digit; anything else ValueError
ParseInt(s) ==
    LET signed == s # <<>> /\ Head(s) \in {"-", "+"}
        body == IF signed THEN Tail(s) ELSE s
        ok == body # <<>> /\ \A j \in 1..Len(body) : IsDigit(body[j])
    IN  IF ~ok THEN [ok |-> FALSE, val |-> 0]
        ELSE [ok |-> TRUE,
              val |-> IF signed /\ Head(s) = "-" THEN 0 - DigitsVal(body, 0)
                      ELSE DigitsVal(body, 0)]

Targets == (0 - (MaxTarget + 1))..MaxTarget

\* query.data of the callbacks delivered: every "step:k", and malformed ones
\* (no data and so no prefix, an empty suffix, a non-numeric suffix)
Payloads ==
    { CallbackData(k) : k \in Targets }
        \cup { <<>>, StepPrefix, StepPrefix \o <<"x">> }

\* free texts a user may type
Texts == {"Next", " Next ", "wrong text"}

VARIABLES
    steps,       \* context.bot_data["steps"]: the list load_steps returned
    users,       \* table users of users.db, one row per user_id
    user_data,   \* context.user_data[...]["step_index"] per user
    pc,          \* where the dispatcher thread is: "idle", inside a handler, "done"
    chat,        \* chat_id of the update being handled
    index,       \* parameter index of the running send_from_index
    idx,         \* local idx of the running send_from_index
    pos,         \* loop variable i of the running send_step
    signal,      \* the update dispatched last
    result,      \* how its handler ended: "running", "returned", "raised"
    sent,        \* transport calls made by that handler, in order
    rendered,    \* the step indices that handler passed to send_step
    seg          \* a call of _split_text: its arguments and what it returned

vars == <<steps, users, user_data, pc, chat, index, idx, pos,
          signal, result, sent, rendered, seg>>

\* ------------------------------------------------------------- _split_text
\* a text is a sequence of characters; NL is the newline
NL == "nl"

Chars == {"a", NL}

\* the position of the first "\n\n" in t, 0 when there is none
FindSep(t) ==
    IF \E i \in 1..(Len(t) - 1) : t[i] = NL /\ t[i + 1] = NL
    THEN CHOOSE i \in 1..(Len(t) - 1) :
             /\ t[i] = NL /\ t[i + 1] = NL
             /\ \A j \in 1..(i - 1) : ~(t[j] = NL /\ t[j + 1] = NL)
    ELSE 0

\* text.split("\n\n")
RECURSIVE SplitParas(_)
SplitParas(t) ==
    IF FindSep(t) = 0 THEN <<t>>
    ELSE <<SubSeq(t, 1, FindSep(t) - 1)>>
             \o SplitParas(SubSeq(t, FindSep(t) + 2, Len(t)))

\* the paragraph loop: paragraphs are joined while they fit; `if current:`
\* appends what is left
RECURSIVE Accumulate(_, _, _, _)
Accumulate(paras, parts, current, max_len) ==
    IF paras = <<>>
    THEN IF current # <<>> THEN Append(parts, current) ELSE parts
    ELSE LET para == Head(paras) IN
         IF current = <<>>
         THEN Accumulate(Tail(paras), parts, para, max_len)
         ELSE IF Len(current) + 2 + Len(para) <= max_len
         THEN Accumulate(Tail(paras), parts, current \o <<NL, NL>> \o para, max_len)
         ELSE Accumulate(Tail(paras), Append(parts, current), para, max_len)

\* Windows with part[i : i + max_len + 1]
RECURSIVE WindowsWide(_, _)
WindowsWide(part, max_len) ==
    IF part = <<>> THEN <<>>
    ELSE IF Len(part) <= max_len + 1 THEN <<part>>
    ELSE <<SubSeq(part, 1, max_len + 1)>>
             \o WindowsWide(SubSeq(part, max_len + 1, Len(part)), max_len)

\* part[i : i + max_len] for i in range(0, len(part), max_len)
RECURSIVE Windows(_, _)
Windows(part, max_len) ==
    IF part = <<>> THEN <<>>
    ELSE IF Len(part) <= max_len THEN <<part>>
    ELSE <<SubSeq(part, 1, max_len)>>
             \o Windows(SubSeq(part, max_len + 1, Len(part)), max_len)

\* the final loop: a part longer than max_len is cut into windows
RECURSIVE FinalParts(_, _)
FinalParts(parts, max_len) ==
    IF parts = <<>> THEN <<>>
    ELSE (IF Len(Head(parts)) <= max_len THEN <<Head(parts)>>
          ELSE Windows(Head(parts), max_len))
             \o FinalParts(Tail(parts), max_len)

\* _split_text(text, max_len)
split_text(text, max_len) ==
    IF Len(text) <= max_len THEN <<text>>
    ELSE FinalParts(Accumulate(SplitParas(text), <<>>, <<>>, max_len), max_len)

\* the texts of at most n characters
TextsUpTo(n) == UNION { [1..k -> Chars] : k \in 0..n }

\* no call of _split_text is being followed
SegOff == [phase |-> "off", text |-> <<>>, max_len |-> 1, parts |-> <<>>]

\* ------------------------------------------------------------ users table
NoRow == [present |-> FALSE, is_active |-> 0, last_step |-> NULL, completed_at |-> NULL]

\* upsert_user: UPDATE ... is_active=1; INSERT when no row was updated
upsert_user(us, u) ==
    IF us[u].present
    THEN [us EXCEPT ![u].is_active = 1]
    ELSE [us EXCEPT ![u] = [present |-> TRUE, is_active |-> 1,
                            last_step |-> NULL, completed_at |-> NULL]]

\* set_user_inactive: UPDATE users SET is_active=0 WHERE user_id=?
set_user_inactive(us, u) ==
    IF us[u].present THEN [us EXCEPT ![u].is_active = 0] ELSE us

\* update_user_progress with `ELSE NULL` for `ELSE completed_at`
update_user_progress_clearing(us, u, last_step, completed, ts) ==
    IF us[u].present
    THEN [us EXCEPT ![u].last_step = last_step,
                    ![u].completed_at = IF completed THEN ts ELSE NULL]
    ELSE us

\* update_user_progress: completed_at is rewritten only when completed
update_user_progress(us, u, last_step, completed, ts) ==
    IF us[u].present
    THEN [us EXCEPT ![u].last_step = last_step,
                    ![u].completed_at = IF completed THEN ts ELSE @]
    ELSE us

\* CURRENT_TIMESTAMP as a write may read it: not before any stamp stored
Timestamps(us) ==
    { ts \in 1..MaxTime :
        \A u \in Users : us[u].completed_at # NULL => us[u].completed_at <= ts }

\* ------------------------------------------------------------ step access
N == Len(steps)

\* steps[i] of a Python list: a negative i counts from the end
InRange(i) == 0 - N <= i /\ i < N

StepAt(i) == IF i >= 0 THEN steps[i + 1] ELSE steps[N + i + 1]

\* `if step.button and step.text:` for `if step.button:`
HasButtonAndText(step) == step.button # NoButton /\ step.text > 0

\* `if step.button:` of send_from_index and send_step
HasButton(step) == step.button # NoButton

\* every call of a step with a button given reply_markup=keyboard
OpAlwaysMarkup(kind, item, attach, out) ==
    [step_index |-> idx, kind |-> kind, item |-> item,
     reply_markup |-> IF StepAt(idx).button # NoButton THEN CallbackData(idx) ELSE <<>>,
     outcome |-> out]

\* one transport call of send_step, as logged
Op(kind, item, attach, out) ==
    [step_index |-> idx, kind |-> kind, item |-> item,
     reply_markup |-> IF attach THEN CallbackData(idx) ELSE <<>>,
     outcome |-> out]

\* ------------------------------------------------------------------- init
Init ==
    /\ steps \in StepLists
    /\ users = [u \in Users |-> NoRow]
    /\ user_data = [u \in Users |-> NULL]
    /\ pc = "idle"
    /\ chat \in Users
    /\ index = NULL
    /\ idx = NULL
    /\ pos = 0
    /\ signal = [kind |-> "none", data |-> <<>>]
    /\ result = "returned"
    /\ sent = <<>>
    /\ rendered = <<>>
    /\ seg = SegOff

\* Dispatch of a dispatcher that hands an update over while a handler runs
DispatchAnytime(u, kind, data) ==
    /\ chat' = u
    /\ signal' = [kind |-> kind, data |-> data]
    /\ UNCHANGED <<sent, rendered, pos, seg>>

\* the dispatcher hands an update to its handler
Dispatch(u, kind, data) ==
    /\ pc = "idle"
    /\ chat' = u
    /\ signal' = [kind |-> kind, data |-> data]
    /\ UNCHANGED <<sent, rendered, pos, seg>>

\* the handler ends, normally or by an exception that reaches the dispatcher
Finish(how) ==
    /\ pc' = "done"
    /\ result' = how

\* the dispatcher is back in its loop, waiting for the next update: nothing
\* of the handler's frame is left
NextUpdate ==
    /\ pc = "done"
    /\ pc' = "idle"
    /\ index' = NULL
    /\ idx' = NULL
    /\ pos' = 0
    /\ signal' = [kind |-> "none", data |-> <<>>]
    /\ result' = "returned"
    /\ sent' = <<>>
    /\ rendered' = <<>>
    /\ UNCHANGED <<steps, users, user_data, chat, seg>>

\* send_from_index(chat_id, context, i) is entered: idx = index
EnterWalk(i) ==
    /\ pc' = "loop"
    /\ result' = "running"
    /\ index' = i
    /\ idx' = i

NoWalk == index' = NULL /\ idx' = NULL

\* ---------------------------------------------------------------- handlers
\* start: upsert_user, step_index = 0, send_from_index(chat, 0)
start(u) ==
    /\ Dispatch(u, "start", <<>>)
    /\ users' = upsert_user(users, u)
    /\ user_data' = [user_data EXCEPT ![u] = 0]
    /\ EnterWalk(0)
    /\ UNCHANGED steps

\* reset: upsert_user, then start
reset(u) ==
    /\ Dispatch(u, "reset", <<>>)
    /\ users' = upsert_user(upsert_user(users, u), u)
    /\ user_data' = [user_data EXCEPT ![u] = 0]
    /\ EnterWalk(0)
    /\ UNCHANGED steps

\* handle_text beginning with upsert_user, as the other handlers do
handle_text_upserting(u, text) ==
    /\ Dispatch(u, "text", <<text>>)
    /\ users' = upsert_user(users, u)
    /\ Finish("returned")
    /\ NoWalk
    /\ UNCHANGED <<steps, user_data>>

\* handle_text: return
handle_text(u, text) ==
    /\ Dispatch(u, "text", <<text>>)
    /\ Finish("returned")
    /\ NoWalk
    /\ UNCHANGED <<steps, users, user_data>>

\* handle_callback that drops a callback for an index the stored cursor has
\* passed (`if idx < last_step: return`)
handle_callback_guarded(u, data, answer) ==
    /\ Dispatch(u, "callback", data)
    /\ users' = upsert_user(users, u)
    /\ IF answer # "Ok"
       THEN Finish("raised") /\ NoWalk
       ELSE IF ~StartsWith(data, StepPrefix)
       THEN Finish("returned") /\ NoWalk
       ELSE IF ~ParseInt(AfterFirstColon(data)).ok
       THEN Finish("returned") /\ NoWalk
       ELSE IF users[u].last_step # NULL
               /\ ParseInt(AfterFirstColon(data)).val < users[u].last_step
       THEN Finish("returned") /\ NoWalk
       ELSE EnterWalk(ParseInt(AfterFirstColon(data)).val + 1)
    /\ UNCHANGED <<steps, user_data>>

\* handle_callback with `except ValueError: idx = 0` for `return`
handle_callback_defaulting(u, data, answer) ==
    /\ Dispatch(u, "callback", data)
    /\ users' = upsert_user(users, u)
    /\ IF answer # "Ok"
       THEN Finish("raised") /\ NoWalk
       ELSE IF ~StartsWith(data, StepPrefix)
       THEN Finish("returned") /\ NoWalk
       ELSE IF ~ParseInt(AfterFirstColon(data)).ok
       THEN EnterWalk(1)
       ELSE EnterWalk(ParseInt(AfterFirstColon(data)).val + 1)
    /\ UNCHANGED <<steps, user_data>>

\* handle_callback: upsert_user, query.answer(), parse "step:<int>",
\* send_from_index(chat, idx + 1)
handle_callback(u, data, answer) ==
    /\ Dispatch(u, "callback", data)
    /\ users' = upsert_user(users, u)
    /\ IF answer # "Ok"
       THEN Finish("raised") /\ NoWalk
       ELSE IF ~StartsWith(data, StepPrefix)
       THEN Finish("returned") /\ NoWalk
       ELSE IF ~ParseInt(AfterFirstColon(data)).ok
       THEN Finish("returned") /\ NoWalk
       ELSE EnterWalk(ParseInt(AfterFirstColon(data)).val + 1)
    /\ UNCHANGED <<steps, user_data>>

\* handle_media: upsert_user, reply with the file_id
handle_media(u, reply) ==
    /\ Dispatch(u, "media", <<>>)
    /\ users' = upsert_user(users, u)
    /\ Finish(IF reply = "Ok" THEN "returned" ELSE "raised")
    /\ NoWalk
    /\ UNCHANGED <<steps, user_data>>

\* broadcast (an admin's): one send_message per active user, Unauthorized
\* flags the user inactive, other failures are counted
broadcast(admin, outs) ==
    /\ Dispatch(admin, "broadcast", <<>>)
    /\ users' = [u \in Users |->
                    IF users[u].present /\ users[u].is_active = 1
                       /\ outs[u] = "Unauthorized"
                    THEN set_user_inactive(users, u)[u]
                    ELSE users[u]]
    /\ Finish("returned")
    /\ NoWalk
    /\ UNCHANGED <<steps, user_data>>

\* --------------------------------------------------------- send_from_index
step == StepAt(idx)

has_videos == Len(step.videos) > 0

\* an exception leaves send_step, send_from_index and the handler
Raise ==
    /\ Finish("raised")
    /\ pos' = 0
    /\ UNCHANGED <<steps, users, user_data, chat, index, idx,
                   signal, rendered>>

\* `except Unauthorized: set_user_inactive(chat_id); raise`
UnreachableAborting ==
    /\ users' = set_user_inactive(users, chat)
    /\ Finish("raised")
    /\ UNCHANGED <<steps, user_data, chat, index, idx, pos,
                   signal, rendered>>

\* `except Unauthorized: set_user_inactive(chat_id); return` of send_step
Unreachable ==
    /\ users' = set_user_inactive(users, chat)
    /\ pc' = "ret"
    /\ UNCHANGED <<steps, user_data, chat, index, idx, pos,
                   signal, result, rendered>>

\* send_step goes on to the statement at `to`, loop variable i
Goto(to, i) ==
    /\ pc' = to
    /\ pos' = i
    /\ UNCHANGED <<steps, users, user_data, chat, index, idx,
                   signal, result, rendered>>

\* the video loop of send_step moves to its next element, or send_step ends
\* (the empty-step test of line 324 is false: the step has videos)
NextVideo ==
    IF pos + 1 < Len(step.videos) THEN Goto("video", pos + 1) ELSE Goto("ret", pos)

\* while idx < len(steps): step = steps[idx]; send_step(...) is entered;
\* after the loop: step_index = len(steps), update_user_progress(completed)
Loop ==
    /\ pc = "loop"
    /\ IF idx < N
       THEN IF ~InRange(idx)
            THEN \* IndexError of steps[idx]
                 /\ Finish("raised")
                 /\ UNCHANGED <<users, user_data, pos, rendered>>
            ELSE /\ rendered' = Append(rendered, idx)
                 /\ pc' = IF step.text > 0 THEN "text"
                          ELSE IF has_videos THEN "video" ELSE "empty"
                 /\ pos' = 0
                 /\ UNCHANGED <<users, user_data, result>>
       ELSE /\ user_data' = [user_data EXCEPT ![chat] = N]
            /\ \E ts \in Timestamps(users) :
                  users' = update_user_progress(users, chat, N, TRUE, ts)
            /\ Finish("returned")
            /\ pos' = 0
            /\ UNCHANGED rendered
    /\ UNCHANGED <<steps, chat, index, idx, signal, sent, seg>>

\* send_message of text chunk i: only Unauthorized is caught
SendText(out) ==
    /\ pc = "text"
    /\ UNCHANGED seg
    /\ sent' = Append(sent, Op("text", pos,
                               ~has_videos /\ HasButton(step) /\ pos = step.text - 1,
                               out))
    /\ CASE out = "Ok" ->
                IF pos + 1 < step.text THEN Goto("text", pos + 1)
                ELSE IF has_videos THEN Goto("video", 0)
                ELSE Goto("ret", pos)
         [] out = "Unauthorized" -> Unreachable
         [] out = "Failed" -> Raise

\* video i: by file_id, or the missing-file notice, or from the file
SendVideo(out) ==
    /\ pc = "video"
    /\ UNCHANGED seg
    /\ LET video == step.videos[pos + 1]
           attach_keyboard == HasButton(step) /\ pos = Len(step.videos) - 1
       IN  IF video \in FILE_ID_MAP \/ video \in ExistingFiles
           THEN /\ sent' = Append(sent, Op(IF video \in FILE_ID_MAP THEN "video_id"
                                            ELSE "video_file",
                                            pos, attach_keyboard, out))
                /\ CASE out = "Ok" -> NextVideo
                     [] out = "Unauthorized" -> Unreachable
                     [] out = "Failed" -> Goto("notice", pos)
           ELSE /\ sent' = Append(sent, Op("missing", pos, attach_keyboard, out))
                /\ CASE out = "Ok" -> NextVideo
                     [] out = "Unauthorized" ->
                            \* set_user_inactive, then `continue`
                            /\ users' = set_user_inactive(users, chat)
                            /\ pc' = IF pos + 1 < Len(step.videos) THEN "video" ELSE "ret"
                            /\ pos' = IF pos + 1 < Len(step.videos) THEN pos + 1 ELSE pos
                            /\ UNCHANGED <<steps, user_data, chat, index, idx,
                                           signal, result, rendered>>
                     [] out = "Failed" -> Raise

\* SendNotice with `except Exception: pass` around the notice
SendNoticeSwallowing(out) ==
    /\ pc = "notice"
    /\ UNCHANGED seg
    /\ sent' = Append(sent, Op("failed", pos,
                               HasButton(step) /\ pos = Len(step.videos) - 1, out))
    /\ CASE out = "Ok" -> NextVideo
         [] out = "Unauthorized" -> Unreachable
         [] out = "Failed" -> NextVideo

\* the notice sent after send_video raised another exception
SendNotice(out) ==
    /\ pc = "notice"
    /\ UNCHANGED seg
    /\ sent' = Append(sent, Op("failed", pos,
                               HasButton(step) /\ pos = Len(step.videos) - 1, out))
    /\ CASE out = "Ok" -> NextVideo
         [] out = "Unauthorized" -> Unreachable
         [] out = "Failed" -> Raise

\* the notice of a step with neither text nor videos
SendEmpty(out) ==
    /\ pc = "empty"
    /\ UNCHANGED seg
    /\ sent' = Append(sent, Op("empty", 0, HasButton(step), out))
    /\ CASE out = "Ok" -> Goto("ret", pos)
         [] out = "Unauthorized" ->
                /\ users' = set_user_inactive(users, chat)
                /\ pc' = "ret"
                /\ UNCHANGED <<steps, user_data, chat, index, idx, pos,
                               signal, result, rendered>>
         [] out = "Failed" -> Raise

\* StepDone without `context.user_data["step_index"] = idx`
StepDoneNoSession ==
    /\ pc = "ret"
    /\ IF HasButton(step)
       THEN /\ UNCHANGED user_data
            /\ \E ts \in Timestamps(users) :
                  users' = update_user_progress(users, chat, idx, FALSE, ts)
            /\ Finish("returned")
            /\ pos' = 0
            /\ UNCHANGED idx
       ELSE /\ idx' = idx + 1
            /\ pc' = "loop"
            /\ UNCHANGED <<users, user_data, result, pos>>
    /\ UNCHANGED <<steps, chat, index, signal, sent, rendered, seg>>

\* StepDone of a loop without `idx += 1`
StepDoneStuck ==
    /\ pc = "ret"
    /\ IF HasButton(step)
       THEN /\ user_data' = [user_data EXCEPT ![chat] = idx]
            /\ \E ts \in Timestamps(users) :
                  users' = update_user_progress(users, chat, idx, FALSE, ts)
            /\ Finish("returned")
            /\ pos' = 0
            /\ UNCHANGED idx
       ELSE /\ idx' = idx
            /\ pc' = "loop"
            /\ UNCHANGED <<users, user_data, result, pos>>
    /\ UNCHANGED <<steps, chat, index, signal, sent, rendered, seg>>

\* send_step returned: a step with a button stops the walk and is persisted
StepDone ==
    /\ pc = "ret"
    /\ IF HasButton(step)
       THEN /\ user_data' = [user_data EXCEPT ![chat] = idx]
            /\ \E ts \in Timestamps(users) :
                  users' = update_user_progress(users, chat, idx, FALSE, ts)
            /\ Finish("returned")
            /\ pos' = 0
            /\ UNCHANGED idx
       ELSE /\ idx' = idx + 1
            /\ pc' = "loop"
            /\ UNCHANGED <<users, user_data, result, pos>>
    /\ UNCHANGED <<steps, chat, index, signal, sent, rendered, seg>>

\* ------------------------------------------------------------------- spec
Next ==
    \/ \E u \in Users : start(u)
    \/ \E u \in Users : reset(u)
    \/ \E u \in Users, text \in Texts : handle_text(u, text)
    \/ \E u \in Users, data \in Payloads, answer \in {"Ok", "Failed"} :
          handle_callback(u, data, answer)
    \/ \E u \in Users, reply \in {"Ok", "Failed"} : handle_media(u, reply)
    \/ \E admin \in Users, outs \in [Users -> Outcomes] : broadcast(admin, outs)
    \/ Loop
    \/ \E out \in Outcomes : SendText(out)
    \/ \E out \in Outcomes : SendVideo(out)
    \/ \E out \in Outcomes : SendNotice(out)
    \/ \E out \in Outcomes : SendEmpty(out)
    \/ StepDone
    \/ NextUpdate

Spec == Init /\ [][Next]_vars

\* a handler that has begun runs on: every send call returns or raises, and
\* the loop of send_from_index takes its next step
WalkStep ==
    \/ Loop
    \/ \E out \in Outcomes : SendText(out)
    \/ \E out \in Outcomes : SendVideo(out)
    \/ \E out \in Outcomes : SendNotice(out)
    \/ \E out \in Outcomes : SendEmpty(out)
    \/ StepDone

\* send_from_index(chat_id, context, index) is entered: the callback of a user
\* not seen before, for every payload index and every step list
InitWalk ==
    /\ steps \in StepLists
    /\ chat \in Users
    /\ users = upsert_user([u \in Users |-> NoRow], chat)
    /\ user_data = [u \in Users |-> NULL]
    /\ pc = "loop"
    /\ \E t \in Targets :
          /\ signal = [kind |-> "callback", data |-> CallbackData(t)]
          /\ index = t + 1
          /\ idx = t + 1
    /\ pos = 0
    /\ result = "running"
    /\ sent = <<>>
    /\ rendered = <<>>
    /\ seg = SegOff

SpecWalk == InitWalk /\ [][WalkStep]_vars /\ WF_vars(WalkStep)

\* ------------------------------------------- _split_text on its own inputs
\* the bot is not started; a text and a max_len >= 1 are given
InitSplit ==
    /\ steps = <<Step(0, NoButton, <<>>)>>
    /\ users = [u \in Users |-> NoRow]
    /\ user_data = [u \in Users |-> NULL]
    /\ pc = "idle"
    /\ chat \in Users
    /\ index = NULL
    /\ idx = NULL
    /\ pos = 0
    /\ signal = [kind |-> "none", data |-> <<>>]
    /\ result = "returned"
    /\ sent = <<>>
    /\ rendered = <<>>
    /\ \E text \in TextsUpTo(MaxText), max_len \in 1..MaxMaxLen :
          seg = [phase |-> "call", text |-> text, max_len |-> max_len, parts |-> <<>>]

\* _split_text returns
SplitText ==
    /\ seg.phase = "call"
    /\ seg' = [seg EXCEPT !.phase = "returned",
                          !.parts = split_text(seg.text, seg.max_len)]
    /\ UNCHANGED <<steps, users, user_data, pc, chat, index, idx, pos,
                   signal, result, sent, rendered>>

NextSplit == SplitText

SpecSplit == InitSplit /\ [][NextSplit]_vars

\* ------------------------------------------------- vocabulary of the claims
Row(u) == users[u]

Last(s) == s[Len(s)]

\* the first index >= f of a step with a confirmation label, or N
FirstGated(f) ==
    IF \E k \in f..(N - 1) : steps[k + 1].button # NoButton
    THEN CHOOSE k \in f..(N - 1) :
             /\ steps[k + 1].button # NoButton
             /\ \A m \in f..(k - 1) : steps[m + 1].button = NoButton
    ELSE N

\* f, f + 1, ..., t as a sequence
Range(f, t) == [k \in 1..(t - f + 1) |-> f + k - 1]

\* the identity's stored cursor points at a gated step
GatedAt(u) ==
    /\ Row(u).present
    /\ Row(u).last_step \in 0..(N - 1)
    /\ steps[Row(u).last_step + 1].button # NoButton

Label(u) == steps[Row(u).last_step + 1].button

\* inputText.trim() for the texts of Texts
Trim(t) == IF t = " Next " THEN "Next" ELSE t

\* this step is the one in which a handler hands back to the dispatcher
Returns == pc # "done" /\ pc' = "done" /\ result' = "returned"

\* ------------------------------------------------------------------ claims

\* C1: the persisted lastStepIndex never decreases over a Start, Confirm or
\* CallbackResume signal (any integer targetIdx); only Reset may lower it.
C1_Monotonic ==
    [][\A u \in Users :
          (Row(u).last_step # NULL /\ signal'.kind \in {"start", "text", "callback"})
              => users'[u].last_step >= Row(u).last_step]_vars

\* C2: advance(f) with 0 <= f <= N that returns has rendered f, f+1, ... up to
\* the first gated step g >= f and persisted lastStepIndex = g without
\* completion, or has rendered up to N - 1 and persisted N with completion
\* when no step at or after f is gated; it never persists an ungated index.
C2_Gating ==
    [][(Returns /\ index \in 0..N) =>
          LET g == FirstGated(index) IN
              /\ users'[chat].last_step = g
              /\ user_data'[chat] = g
              /\ rendered' = Range(index, IF g < N THEN g ELSE N - 1)
              /\ g < N => users'[chat].completed_at = Row(chat).completed_at
              /\ g = N => users'[chat].completed_at # NULL]_vars

C2_Witness ==
    /\ pc = "done" /\ result = "returned"
    /\ signal.kind = "callback"
    /\ index \in 1..(N - 1)
    /\ steps[index + 1].button # NoButton
    /\ Row(chat).last_step = index
    /\ rendered = <<index>>

\* C3: a free text whose trimmed form equals the confirmationLabel of the gated
\* step i the cursor points at runs advance(i + 1): the following steps are
\* rendered and the new lastStepIndex is persisted.
C3_ConfirmAdvances ==
    [][\A u \in Users :
          (pc = "idle" /\ signal'.kind = "text" /\ chat' = u /\ GatedAt(u)
             /\ Trim(signal'.data[1]) = Label(u))
              => /\ index' = Row(u).last_step + 1
                 /\ pc' = "loop"]_vars

\* C4: a free text whose trimmed form differs from the confirmationLabel of
\* the gated step the cursor points at sends nothing and leaves lastStepIndex,
\* completedAt, isActive and the session cursor as they were.
C4_WrongTextNoOp ==
    [][\A u \in Users :
          (pc = "idle" /\ signal'.kind = "text" /\ chat' = u /\ GatedAt(u)
             /\ Trim(signal'.data[1]) # Label(u))
              => /\ Returns
                 /\ users' = users
                 /\ user_data' = user_data
                 /\ sent' = <<>>
                 /\ rendered' = <<>>]_vars

C4_Witness ==
    /\ pc = "done" /\ result = "returned"
    /\ signal.kind = "text"
    /\ GatedAt(chat)
    /\ Trim(signal.data[1]) # Label(chat)
    /\ Row(chat).is_active = 0

\* C5: the persisted lastStepIndex and the session cursor always lie in 0..N,
\* and only step indices i with 0 <= i < N are rendered, whatever integer a
\* callback payload carries.
C5_CursorRange ==
    /\ \A u \in Users :
          /\ Row(u).last_step # NULL => Row(u).last_step \in 0..N
          /\ user_data[u] # NULL => user_data[u] \in 0..N
    /\ \A k \in 1..Len(rendered) : rendered[k] \in 0..(N - 1)

\* C6: completedAt is written once, the first time lastStepIndex reaches N: no
\* later signal changes its value.
C6_CompletedOnce ==
    [][\A u \in Users :
          Row(u).completed_at # NULL
              => users'[u].completed_at = Row(u).completed_at]_vars

\* C7: once completedAt is non-null it stays non-null, whatever Start, Reset,
\* callback, upsert, setInactive or setProgress(idx, FALSE) follows.
C7_CompletedKept ==
    [][\A u \in Users :
          Row(u).completed_at # NULL => users'[u].completed_at # NULL]_vars

C7_Witness ==
    /\ pc = "done" /\ result = "returned"
    /\ index # NULL
    /\ Row(chat).completed_at # NULL
    /\ Row(chat).last_step \in 0..(N - 1)

\* C8: a walk that renders the last step and reaches N persists
\* lastStepIndex = N, sets completedAt and emits a course-completion notice
\* after the last step's content.
C8_CompletionNotice ==
    (pc = "done" /\ result = "returned" /\ index # NULL /\ Row(chat).last_step = N
       /\ rendered # <<>> /\ Last(rendered) = N - 1)
        => /\ Row(chat).completed_at # NULL
           /\ sent # <<>>
           /\ Last(sent).kind = "completion"

\* C9: after a send of a step's render is answered Unauthorized, no further
\* send of that render call is made, and the identity is inactive when the
\* render call returns.
C9_UnreachableAborts ==
    /\ \A k \in 1..Len(sent) :
          sent[k].outcome = "Unauthorized"
              => \A m \in (k + 1)..Len(sent) : sent[m].step_index # sent[k].step_index
    /\ (pc = "ret" /\ \E k \in 1..Len(sent) :
                         /\ sent[k].step_index = idx
                         /\ sent[k].outcome = "Unauthorized")
          => Row(chat).is_active = 0

\* C10: a text part or a video whose send fails with another error than
\* Unauthorized does not end the render call: the failure does not escape and
\* advance still persists progress.
C10_FailureContained ==
    ~ /\ pc = "done" /\ result = "raised"
      /\ sent # <<>>
      /\ Last(sent).outcome = "Failed"
      /\ Last(sent).kind \in {"text", "video_id", "video_file"}

\* the transport calls of the render call in progress (send_step of idx)
ThisRender == SelectSeq(sent, LAMBDA o : o.step_index = idx)

NoUnreachable(r) == \A k \in 1..Len(r) : r[k].outcome # "Unauthorized"

\* C11: when the render of a gated step completes without Unauthorized,
\* exactly one delivered operation carries the control bound to the step's
\* position, and it is the last one emitted: the last text part without
\* media, the last media operation (video, missing-file or failed-video
\* notice) with media and then no text part, the empty-step notice otherwise.
C11_ControlLast ==
    (pc = "ret" /\ StepAt(idx).button # NoButton /\ NoUnreachable(ThisRender)) =>
        LET r == ThisRender
            st == StepAt(idx)
        IN  /\ r # <<>>
            /\ { k \in 1..Len(r) : r[k].reply_markup # <<>> /\ r[k].outcome = "Ok" }
                   = {Len(r)}
            /\ Last(r).reply_markup = CallbackData(idx)
            /\ IF Len(st.videos) > 0
               THEN /\ Last(r).kind \in {"video_id", "video_file", "missing", "failed"}
                    /\ Last(r).item = Len(st.videos) - 1
                    /\ \A k \in 1..Len(r) : r[k].kind = "text" => r[k].reply_markup = <<>>
               ELSE IF st.text > 0
               THEN Last(r).kind = "text" /\ Last(r).item = st.text - 1
               ELSE Last(r).kind = "empty" /\ Len(r) = 1

C11_Witness ==
    /\ pc = "ret" /\ StepAt(idx).button # NoButton /\ NoUnreachable(ThisRender)
    /\ Len(ThisRender) = 4
    /\ ThisRender[2].kind = "video_file" /\ ThisRender[2].outcome = "Failed"
    /\ ThisRender[3].kind = "failed"
    /\ Last(ThisRender).kind = "missing"
    /\ Last(ThisRender).reply_markup = CallbackData(idx)

\* the payload lacks the "step:" prefix or its suffix is no integer
Malformed(data) ==
    \/ ~StartsWith(data, StepPrefix)
    \/ ~ParseInt(AfterFirstColon(data)).ok

\* the callback handled in this step, for identity u
CallbackStep(u) == pc = "idle" /\ signal'.kind = "callback" /\ chat' = u

C13_ReplayReruns ==
    [][/\ \A u \in Users :
             (CallbackStep(u) /\ ~Malformed(signal'.data))
                 => \/ /\ pc' = "loop"
                       /\ index' = ParseInt(AfterFirstColon(signal'.data)).val + 1
                       /\ idx' = index'
                    \/ pc' = "done" /\ result' = "raised"
       /\ (Returns /\ signal.kind = "callback" /\ index # NULL /\ index >= 0)
             => users'[chat].last_step = FirstGated(index)]_vars

\* a step the stored cursor had passed is delivered again
C13_Witness ==
    /\ pc = "ret"
    /\ signal.kind = "callback"
    /\ index \in 1..(N - 1)
    /\ idx = index
    /\ Row(chat).last_step # NULL
    /\ Row(chat).last_step > index
    /\ ThisRender # <<>>
    /\ \A k \in 1..Len(ThisRender) : ThisRender[k].outcome = "Ok"

\* --------------------------------------------------- claims on _split_text
\* parts rejoined with the blank-line separator
RECURSIVE Join(_)
Join(parts) ==
    IF parts = <<>> THEN <<>>
    ELSE IF Len(parts) = 1 THEN parts[1]
    ELSE parts[1] \o <<NL, NL>> \o Join(Tail(parts))

NoLongPara(text, max_len) ==
    \A k \in 1..Len(SplitParas(text)) : Len(SplitParas(text)[k]) <= max_len

\* C14: for every text and every max_len >= 1, every part _split_text returns
\* has at most max_len characters, also when one paragraph is longer than
\* max_len.
C14_PartSize ==
    seg.phase = "returned"
        => \A k \in 1..Len(seg.parts) : Len(seg.parts[k]) <= seg.max_len

C14_Witness ==
    /\ seg.phase = "returned"
    /\ ~NoLongPara(seg.text, seg.max_len)
    /\ Len(SplitParas(seg.text)) = 2
    /\ Len(seg.parts) = 3
    /\ Len(seg.parts[2]) < seg.max_len

\* C15: when no blank-line-separated paragraph of text is longer than max_len
\* (empty paragraphs included), the parts _split_text returns, joined with the
\* blank-line separator, are text.
C15_RoundTrip ==
    (seg.phase = "returned" /\ NoLongPara(seg.text, seg.max_len))
        => Join(seg.parts) = seg.text

\* ------------------------------------------------- one update at a time
InHandler == pc \in {"loop", "text", "video", "notice", "empty", "ret"}

C17_Advance ==
    /\ [](index # NULL => rendered = Range(index, index + Len(rendered) - 1))
    /\ [][(Returns /\ index # NULL) =>
              /\ \A k \in 1..(Len(rendered') - 1) : ~HasButton(StepAt(rendered'[k]))
              /\ \/ rendered' # <<>> /\ HasButton(StepAt(Last(rendered')))
                 \/ index + Len(rendered') >= N]_vars
    /\ (InHandler ~> pc = "done")

C17_Witness ==
    /\ pc = "done" /\ result = "returned"
    /\ index = 0
    /\ rendered = <<0, 1>>
    /\ HasButton(StepAt(1))

\* the handler of a /start, a /reset or a callback that reached
\* send_from_index
Walked == signal.kind \in {"start", "reset", "callback"} /\ index # NULL

\* C18: when the handler of a /start, a /reset or a well-formed callback
\* returns normally, user_data["step_index"] of the chat equals the stored
\* last_step; below len(steps) it is the index of a step with a button, the
\* last step rendered.
C18_SessionCursor ==
    [][(Returns /\ Walked) =>
           /\ user_data'[chat] = users'[chat].last_step
           /\ user_data'[chat] < N =>
                 /\ InRange(user_data'[chat])
                 /\ HasButton(StepAt(user_data'[chat]))
                 /\ rendered' # <<>>
                 /\ Last(rendered') = user_data'[chat]]_vars

C18_Witness ==
    /\ pc = "done" /\ result = "returned"
    /\ signal.kind = "callback" /\ index = 1
    /\ rendered = <<1>>
    /\ user_data[chat] = 1 /\ Row(chat).last_step = 1
    /\ N = 2

\* C19: whenever send_from_index stores last_step = idx for a step with a
\* button, an operation of that render carrying the button of idx was
\* delivered, or an operation of that render was answered Unauthorized and the
\* user is inactive; a failed send of the button never ends in the stored gate.
C19_GateHasControl ==
    [][(pc = "ret" /\ Returns /\ HasButton(step)) =>
           \/ \E k \in 1..Len(ThisRender) :
                  /\ ThisRender[k].reply_markup = CallbackData(idx)
                  /\ ThisRender[k].outcome = "Ok"
           \/ /\ \E k \in 1..Len(ThisRender) : ThisRender[k].outcome = "Unauthorized"
              /\ Row(chat).is_active = 0]_vars

C19_Witness ==
    /\ pc = "done" /\ result = "returned"
    /\ idx # NULL /\ InRange(idx) /\ HasButton(StepAt(idx))
    /\ Row(chat).last_step = idx /\ Row(chat).is_active = 1
    /\ \E k \in 1..Len(ThisRender) :
           /\ ThisRender[k].kind = "video_file"
           /\ ThisRender[k].outcome = "Failed"
           /\ ThisRender[k].reply_markup # <<>>
    /\ Last(ThisRender).kind = "failed"
    /\ Last(ThisRender).outcome = "Ok"

\* C20: an Unauthorized answer ends the render of the current step only: the
\* user is set inactive and send_step returns (or, for the missing-file notice,
\* goes on); send_from_index then does what it does after any render: past a
\* step without a button it renders idx + 1, at a step with a button it stores
\* last_step = idx, and past the last step it stores last_step = len(steps)
\* and completed_at, all for the user now inactive.
C20_UnreachableGoesOn ==
    [][/\ (Len(sent') > Len(sent) /\ Last(sent').outcome = "Unauthorized") =>
              /\ pc' \in {"ret", "video"}
              /\ users'[chat].is_active = 0
       /\ (pc = "ret" /\ ~NoUnreachable(ThisRender)) =>
              IF HasButton(step)
              THEN /\ Returns
                   /\ users'[chat].last_step = idx
                   /\ users'[chat].is_active = 0
              ELSE pc' = "loop" /\ idx' = idx + 1
       /\ (pc = "loop" /\ ~NoUnreachable(sent)) =>
              IF idx >= N
              THEN /\ Returns
                   /\ users'[chat].last_step = N
                   /\ users'[chat].completed_at # NULL
                   /\ users'[chat].is_active = 0
              ELSE InRange(idx) => rendered' = Append(rendered, idx)]_vars

C20_Witness ==
    /\ pc = "done" /\ result = "returned"
    /\ Len(sent) >= 2
    /\ sent[1].outcome = "Unauthorized" /\ sent[1].step_index = 0
    /\ \E k \in 2..Len(sent) : sent[k].step_index = 1
    /\ Row(chat).is_active = 0
    /\ Row(chat).last_step = N /\ Row(chat).completed_at # NULL
====
